---- MODULE Spec2Model ----
(***************************************************************************)
(* dfx-proxy (src/index.ts): the command line is parsed into a mapping     *)
(* from canister ids to local ports, canister names are resolved through   *)
(* the canister ids file, and one express app per mapping proxies every    *)
(* request to the replica host with "canisterId=<id>" added to the query.  *)
(*                                                                         *)
(* A JS string is a sequence of one-character strings, except that a flag  *)
(* is the one-element sequence of its text (no flag holds a ":" or "?").   *)
(* A JS Record is the sequence of its [k, v] entries in insertion order    *)
(* (the order of for..in and Object.keys for keys that are not integers).  *)
(* An optional value is <<>> (undefined, NaN) or <<v>>.                    *)
(***************************************************************************)
EXTENDS Integers, Sequences, FiniteSets, TLC

VARIABLES
    pc,                 \* position of main()
    args,               \* process.argv.slice(2)
    fileContent,        \* what readFileSync + JSON.parse find on disk
    replicaHost,        \* optional string
    canisterIdsFile,    \* optional string
    canisterIdToPort,   \* Record<CanisterId, Port>
    canisterNameToPort, \* Record<CanisterName, Port>
    canisterNameToId,   \* Record<CanisterName, CanisterId>
    ri,                 \* index of the for..in over canisterNameToPort
    si,                 \* index of the for..in over canisterIdToPort
    routers,            \* the apps made by mkApp, in call order
    exitCode,           \* optional process exit status
    message,            \* what was printed before the exit
    lastReq             \* the last request proxied (the morgan log line)

vars == <<pc, args, fileContent, replicaHost, canisterIdsFile, canisterIdToPort,
          canisterNameToPort, canisterNameToId, ri, si, routers, exitCode,
          message, lastReq>>

\* ---------------------------------------------------------------- bounds

MaxItems == 3

MaxWords == 4

\* ------------------------------------------------------------ JS helpers

Min(a, b) == IF a < b THEN a ELSE b

\* Array.prototype.indexOf, 1-based; 0 for JS's -1.
IndexOf(s, x) ==
    IF \E i \in 1..Len(s) : s[i] = x
    THEN CHOOSE i \in 1..Len(s) : s[i] = x /\ \A j \in 1..(i - 1) : s[j] # x
    ELSE 0

\* Array.prototype.splice(i, 2): the removed elements (fewer than 2 at the end).
SpliceRemoved(s, i) == SubSeq(s, i, Min(i + 1, Len(s)))

\* Array.prototype.splice(i, 2): what is left of the array.
SpliceRest(s, i) == SubSeq(s, 1, i - 1) \o SubSeq(s, i + 2, Len(s))

\* String.prototype.split(sep): every piece between separators.
RECURSIVE Split(_, _)
Split(s, sep) ==
    LET i == IndexOf(s, sep) IN
    IF i = 0 THEN <<s>>
    ELSE <<SubSeq(s, 1, i - 1)>> \o Split(SubSeq(s, i + 1, Len(s)), sep)

Digits == {"0", "1", "2", "3", "4", "5", "6", "7", "8", "9"}

DigitVal(c) == CHOOSE d \in 0..9 : <<"0", "1", "2", "3", "4", "5", "6", "7", "8", "9">>[d + 1] = c

\* The value of the longest prefix of decimal digits of s, given the value so far.
RECURSIVE DigitsPrefix(_, _, _)
DigitsPrefix(s, acc, seen) ==
    IF s # <<>> /\ s[1] \in Digits
    THEN DigitsPrefix(Tail(s), acc * 10 + DigitVal(s[1]), TRUE)
    ELSE IF seen THEN <<acc>> ELSE <<>>

\* parseInt(s): an optional sign, then the leading decimal digits; NaN (<<>>)
\* when there are none. (Leading blanks and the 0x prefix are not in the
\* alphabet of the modelled tokens.)
ParseInt(s) ==
    IF s # <<>> /\ s[1] = "-"
    THEN LET r == DigitsPrefix(Tail(s), 0, FALSE) IN IF r = <<>> THEN <<>> ELSE <<0 - r[1]>>
    ELSE DigitsPrefix(s, 0, FALSE)

\* obj[k] for an own key: <<>> when absent.
Get(rec, key) ==
    IF \E i \in 1..Len(rec) : rec[i].k = key
    THEN <<rec[CHOOSE i \in 1..Len(rec) : rec[i].k = key].v>>
    ELSE <<>>

\* Put with the first assignment to a key kept and the later ones dropped.
PutFirstWins(rec, key, val) ==
    IF \E i \in 1..Len(rec) : rec[i].k = key
    THEN rec
    ELSE Append(rec, [k |-> key, v |-> val])

\* obj[k] = v: an existing key keeps its place, a new key goes last.
Put(rec, key, val) ==
    IF \E i \in 1..Len(rec) : rec[i].k = key
    THEN [i \in 1..Len(rec) |-> IF rec[i].k = key THEN [k |-> key, v |-> val] ELSE rec[i]]
    ELSE Append(rec, [k |-> key, v |-> val])

\* JS truthiness of an optional number: undefined, NaN and 0 are falsy.
TruthyNum(o) == o # <<>> /\ o[1] # 0

\* JS truthiness of an optional string: undefined and "" are falsy.
TruthyStr(o) == o # <<>> /\ o[1] # <<>>

\* ------------------------------------------------------------- messages

Msg(kind, toks, nums) == [kind |-> kind, toks |-> toks, nums |-> nums]

NoMsg == Msg("none", <<>>, <<>>)

\* ------------------------------------------------------------ parseArgs

\* parseCanisterToPort: the loop of lines 102-129, with the record built so far.
RECURSIVE parseCanisterToPort(_, _, _)
parseCanisterToPort(param, as, canisterToPort) ==
    LET canisterToPortArgIndex == IndexOf(as, param) IN
    IF canisterToPortArgIndex = 0
    THEN [err |-> NoMsg, map |-> canisterToPort, rest |-> as]
    ELSE
      LET canisterToPortArgs == SpliceRemoved(as, canisterToPortArgIndex)
          rest == SpliceRest(as, canisterToPortArgIndex)
      IN
      IF Len(canisterToPortArgs) # 2
      THEN [err |-> Msg("NoValue", <<param>>, <<>>), map |-> <<>>, rest |-> rest]
      ELSE
        LET arg == canisterToPortArgs[2]
            tokens == Split(arg, ":")
        IN
        IF Len(tokens) # 2
        THEN [err |-> Msg("CouldNotParse", <<arg>>, <<>>), map |-> <<>>, rest |-> rest]
        ELSE
          LET port == ParseInt(tokens[2]) IN
          IF port = <<>>
          THEN [err |-> Msg("CouldNotParsePort", <<tokens[2]>>, <<>>), map |-> <<>>, rest |-> rest]
          ELSE parseCanisterToPort(param, rest, Put(canisterToPort, tokens[1], port[1]))

parseCanisterIdToPort(as) == parseCanisterToPort(<<"--by-id">>, as, <<>>)

parseCanisterNameToPort(as) == parseCanisterToPort(<<"--by-name">>, as, <<>>)

\* One "flag value" option of parseArgs (lines 33-41 and 44-52).
TakeOption(as, flag) ==
    LET i == IndexOf(as, flag) IN
    IF i = 0 THEN [err |-> NoMsg, val |-> <<>>, rest |-> as]
    ELSE
      LET removed == SpliceRemoved(as, i) IN
      IF Len(removed) # 2
      THEN [err |-> Msg("NoValue", <<flag>>, <<>>), val |-> <<>>, rest |-> SpliceRest(as, i)]
      ELSE [err |-> NoMsg, val |-> <<removed[2]>>, rest |-> SpliceRest(as, i)]

Failed(m) ==
    [err |-> m, replicaHost |-> <<>>, canisterIdsFile |-> <<>>,
     canisterIdToPort |-> <<>>, canisterNameToPort |-> <<>>]

parseArgs(origArgs) ==
    LET r1 == TakeOption(origArgs, <<"--replica-host">>) IN
    IF r1.err # NoMsg THEN Failed(r1.err) ELSE
    LET r2 == TakeOption(r1.rest, <<"--canister-ids-file">>) IN
    IF r2.err # NoMsg THEN Failed(r2.err) ELSE
    LET result == parseCanisterIdToPort(r2.rest) IN
    IF result.err # NoMsg THEN Failed(result.err) ELSE
    LET result_ == parseCanisterNameToPort(result.rest) IN
    IF result_.err # NoMsg THEN Failed(result_.err) ELSE
    IF Len(result_.rest) # 0
    THEN Failed(Msg("DontKnow", result_.rest, <<Len(result_.rest)>>))
    ELSE [err |-> NoMsg, replicaHost |-> r1.val, canisterIdsFile |-> r2.val,
          canisterIdToPort |-> result.map, canisterNameToPort |-> result_.map]

getConfig(origArgs) == parseArgs(origArgs)

\* ----------------------------------------------------------------- main

\* Lines 239-247: the names of the canister ids file that have a truthy "local".
RECURSIVE loadCanisterIds(_, _)
loadCanisterIds(entries, nameToId) ==
    IF entries = <<>> THEN nameToId
    ELSE loadCanisterIds(Tail(entries),
                         IF TruthyStr(entries[1].local)
                         THEN Put(nameToId, entries[1].name, entries[1].local[1])
                         ELSE nameToId)

\* Lines 236-254: err is set when readFileSync or JSON.parse throws.
readCanisterIds(idsFile, content, nameToId) ==
    IF ~TruthyStr(idsFile) THEN [err |-> NoMsg, map |-> nameToId]
    ELSE IF ~content.ok
         THEN [err |-> Msg("CouldNotRead", <<idsFile[1]>>, <<>>), map |-> nameToId]
         ELSE [err |-> NoMsg, map |-> loadCanisterIds(content.entries, nameToId)]

\* Lines 257-276: one iteration of the loop over canisterNameToPort.
resolveName(idToPort, nameToId, canisterName, canisterPort) ==
    LET canisterId == Get(nameToId, canisterName) IN
    IF ~TruthyStr(canisterId)
    THEN [err |-> Msg("NoCanisterId", <<canisterName>>, <<canisterPort>>), map |-> idToPort]
    ELSE IF TruthyNum(Get(idToPort, canisterId[1]))
         THEN [err |-> Msg("AlreadyForwarded", <<canisterName, canisterId[1]>>,
                           <<canisterPort, Get(idToPort, canisterId[1])[1]>>),
               map |-> idToPort]
         ELSE [err |-> NoMsg, map |-> Put(idToPort, canisterId[1], canisterPort)]

\* Lines 148-195: the app made for one mapping; listen() has been called and
\* has not yet reported.
mkApp(host, port, canisterId) ==
    [replicaHost |-> host, port |-> port, canisterId |-> canisterId, status |-> "starting"]

CanisterIdParam == <<"c", "a", "n", "i", "s", "t", "e", "r", "I", "d", "=">>

\* Lines 175-187.
pathRewrite(pathAndParams, canisterId) ==
    LET parts == Split(pathAndParams, "?")
        path == parts[1]
        params == IF Len(parts) >= 2 THEN <<parts[2]>> ELSE <<>>
        queryParamsString ==
            <<"?">> \o (IF TruthyStr(params) THEN params[1] \o <<"&">> ELSE <<>>)
                    \o CanisterIdParam \o canisterId
    IN path \o queryParamsString

\* --------------------------------------------------------------- inputs

abc == <<"a", "b", "c">>
xyz == <<"x", "y", "z">>
foo == <<"f", "o", "o">>
bar == <<"b", "a", "r">>
P8080 == <<"8", "0", "8", "0">>
P9090 == <<"9", "0", "9", "0">>

Value(c, p) == c \o <<":">> \o p

\* The options the argument lists are made of: an option with its value, a
\* flag alone, or a lone word.
Pool ==
    { << <<"--replica-host">>, <<"g">> >>,
      << <<"--by-id">>, Value(abc, P8080) >>,
      << <<"--by-id">>, Value(abc, <<"0">>) >>,
      << <<"--by-id">>, Value(xyz, P8080) >>,
      << <<"--by-name">>, Value(foo, P9090) >>,
      << <<"--by-name">>, Value(bar, P8080) >>,
      << <<"--help">> >>,
      << <<"--by-id">> >>,
      << <<"--replica-host">> >>,
      << <<"--canister-ids-file">> >>,
      << abc >>,
      << Value(abc, <<"x">>) >> }

Prefixes ==
    { <<>>,
      << <<"--replica-host">>, <<"h">> >>,
      << <<"--canister-ids-file">>, <<"f">> >>,
      << <<"--replica-host">>, <<"h">>, <<"--canister-ids-file">>, <<"f">> >> }

RECURSIVE Flatten(_)
Flatten(ss) == IF ss = <<>> THEN <<>> ELSE ss[1] \o Flatten(Tail(ss))

ArgLists ==
    { p \o Flatten(b) : p \in Prefixes, b \in UNION {[1..n -> Pool] : n \in 0..MaxItems} }

\* The words of the argument lists that are written word by word.
Words ==
    { <<"--replica-host">>, <<"--canister-ids-file">>, <<"--by-id">>, <<"--by-name">>,
      <<"--help">>, Value(abc, P8080), Value(foo, P9090) }

WordLists ==
    { p \o w : p \in Prefixes, w \in UNION {[1..n -> Words] : n \in 0..MaxWords} }

Entry(name, local) == [name |-> name, local |-> local]

\* The canister ids file: missing or malformed, or a JSON object of names.
FileContents ==
    { [ok |-> FALSE, entries |-> <<>>],
      [ok |-> TRUE, entries |-> <<Entry(foo, <<xyz>>), Entry(bar, <<xyz>>)>>],
      [ok |-> TRUE, entries |-> <<Entry(foo, <<xyz>>), Entry(bar, <<>>)>>],
      [ok |-> TRUE, entries |-> <<Entry(foo, <<abc>>), Entry(bar, <<xyz>>)>>] }

NoFile == [ok |-> FALSE, entries |-> <<>>]

Targets ==
    { <<"/", "p">>,
      <<"/", "p", "?">>,
      <<"/", "p", "?", "k", "=", "1">>,
      <<"/", "p", "?", "k", "=", "1", "?", "j">> }

NoReq == [router |-> 0, originalUrl |-> <<>>, url |-> <<>>, target |-> <<>>]

\* ----------------------------------------------------------------- Init

\* main() is entered: nothing is parsed, no router exists. The canister ids
\* file matters only to an argument list that names one.
Entered ==
    /\ pc = "main"
    /\ fileContent \in (IF IndexOf(args, <<"--canister-ids-file">>) # 0
                        THEN FileContents ELSE {NoFile})
    /\ replicaHost = <<>>
    /\ canisterIdsFile = <<>>
    /\ canisterIdToPort = <<>>
    /\ canisterNameToPort = <<>>
    /\ canisterNameToId = <<>>
    /\ ri = 1
    /\ si = 1
    /\ routers = <<>>
    /\ exitCode = <<>>
    /\ message = NoMsg
    /\ lastReq = NoReq

\* The arguments are a list of options.
Init == args \in ArgLists /\ Entered

\* The arguments are a list of words, flags and values in any arrangement.
InitWords == args \in WordLists /\ Entered

\* -------------------------------------------------------------- actions

\* console.log(msg); console.log(usage); process.exit(code)
Exit(code, msg) ==
    /\ pc' = "exited"
    /\ exitCode' = <<code>>
    /\ message' = msg

\* Lines 203-206.
Help ==
    /\ pc = "main"
    /\ IndexOf(args, <<"--help">>) # 0
    /\ Exit(0, Msg("usage", <<>>, <<>>))
    /\ UNCHANGED <<args, fileContent, replicaHost, canisterIdsFile, canisterIdToPort,
                   canisterNameToPort, canisterNameToId, ri, si, routers, lastReq>>

\* Lines 208-222.
GetConfig ==
    /\ pc = "main"
    /\ IndexOf(args, <<"--help">>) = 0
    /\ LET parsed == getConfig(args) IN
       IF parsed.err # NoMsg
       THEN /\ Exit(1, parsed.err)
            /\ UNCHANGED <<replicaHost, canisterIdsFile, canisterIdToPort,
                           canisterNameToPort, canisterNameToId>>
       ELSE /\ pc' = "checkCanisters"
            /\ replicaHost' = parsed.replicaHost
            /\ canisterIdsFile' = parsed.canisterIdsFile
            /\ canisterIdToPort' = parsed.canisterIdToPort
            /\ canisterNameToPort' = parsed.canisterNameToPort
            /\ canisterNameToId' = <<>>
            /\ UNCHANGED <<exitCode, message>>
    /\ UNCHANGED <<args, fileContent, ri, si, routers, lastReq>>

\* Lines 224-228.
CheckCanisters ==
    /\ pc = "checkCanisters"
    /\ IF Len(canisterIdToPort) = 0
       THEN Exit(1, Msg("NoCanisters", <<>>, <<>>))
       ELSE pc' = "checkReplica" /\ UNCHANGED <<exitCode, message>>
    /\ UNCHANGED <<args, fileContent, replicaHost, canisterIdsFile, canisterIdToPort,
                   canisterNameToPort, canisterNameToId, ri, si, routers, lastReq>>

\* Lines 230-234.
CheckReplica ==
    /\ pc = "checkReplica"
    /\ IF ~TruthyStr(replicaHost)
       THEN Exit(1, Msg("NoReplica", <<>>, <<>>))
       ELSE pc' = "readIds" /\ UNCHANGED <<exitCode, message>>
    /\ UNCHANGED <<args, fileContent, replicaHost, canisterIdsFile, canisterIdToPort,
                   canisterNameToPort, canisterNameToId, ri, si, routers, lastReq>>

\* Lines 236-254.
ReadCanisterIds ==
    /\ pc = "readIds"
    /\ LET r == readCanisterIds(canisterIdsFile, fileContent, canisterNameToId) IN
       IF r.err # NoMsg
       THEN Exit(1, r.err) /\ UNCHANGED canisterNameToId
       ELSE /\ pc' = "resolve"
            /\ canisterNameToId' = r.map
            /\ UNCHANGED <<exitCode, message>>
    /\ UNCHANGED <<args, fileContent, replicaHost, canisterIdsFile, canisterIdToPort,
                   canisterNameToPort, ri, si, routers, lastReq>>

\* ResolveName without the process.exit(1) of its error branches: the message
\* is printed and the loop goes on.
ResolveNameNoExit ==
    /\ pc = "resolve"
    /\ ri <= Len(canisterNameToPort)
    /\ LET r == resolveName(canisterIdToPort, canisterNameToId,
                            canisterNameToPort[ri].k, canisterNameToPort[ri].v) IN
       /\ canisterIdToPort' = r.map
       /\ message' = IF r.err # NoMsg THEN r.err ELSE message
    /\ ri' = ri + 1
    /\ UNCHANGED <<pc, exitCode, args, fileContent, replicaHost, canisterIdsFile,
                   canisterNameToPort, canisterNameToId, si, routers, lastReq>>

\* Lines 256-277: one iteration.
ResolveName ==
    /\ pc = "resolve"
    /\ ri <= Len(canisterNameToPort)
    /\ LET r == resolveName(canisterIdToPort, canisterNameToId,
                            canisterNameToPort[ri].k, canisterNameToPort[ri].v) IN
       IF r.err # NoMsg
       THEN Exit(1, r.err) /\ UNCHANGED <<canisterIdToPort, ri>>
       ELSE /\ canisterIdToPort' = r.map
            /\ ri' = ri + 1
            /\ UNCHANGED <<pc, exitCode, message>>
    /\ UNCHANGED <<args, fileContent, replicaHost, canisterIdsFile,
                   canisterNameToPort, canisterNameToId, si, routers, lastReq>>

\* Lines 279-281: the loop is over, the mappings are printed.
ResolveDone ==
    /\ pc = "resolve"
    /\ ri > Len(canisterNameToPort)
    /\ pc' = "start"
    /\ UNCHANGED <<args, fileContent, replicaHost, canisterIdsFile, canisterIdToPort,
                   canisterNameToPort, canisterNameToId, ri, si, routers, exitCode,
                   message, lastReq>>

\* StartRouter with the identifier read from a variable shared by the
\* iterations, which holds the last key by the time the router uses it.
StartRouterSharedId ==
    /\ pc = "start"
    /\ si <= Len(canisterIdToPort)
    /\ routers' = Append(routers, mkApp(replicaHost[1], canisterIdToPort[si].v,
                                        canisterIdToPort[Len(canisterIdToPort)].k))
    /\ si' = si + 1
    /\ UNCHANGED <<pc, args, fileContent, replicaHost, canisterIdsFile, canisterIdToPort,
                   canisterNameToPort, canisterNameToId, ri, exitCode, message, lastReq>>

\* Lines 283-289: one iteration.
StartRouter ==
    /\ pc = "start"
    /\ si <= Len(canisterIdToPort)
    /\ routers' = Append(routers, mkApp(replicaHost[1], canisterIdToPort[si].v,
                                        canisterIdToPort[si].k))
    /\ si' = si + 1
    /\ UNCHANGED <<pc, args, fileContent, replicaHost, canisterIdsFile, canisterIdToPort,
                   canisterNameToPort, canisterNameToId, ri, exitCode, message, lastReq>>

\* Line 290: main returns, the event loop takes over.
StartDone ==
    /\ pc = "start"
    /\ si > Len(canisterIdToPort)
    /\ pc' = "running"
    /\ UNCHANGED <<args, fileContent, replicaHost, canisterIdsFile, canisterIdToPort,
                   canisterNameToPort, canisterNameToId, ri, si, routers, exitCode,
                   message, lastReq>>

SetStatus(i, st) == [routers EXCEPT ![i].status = st]

\* Lines 191-195: the port is bound and the callback logs it. Two servers of
\* this process cannot hold the same localhost port.
ListenOk(i) ==
    /\ pc = "running"
    /\ routers[i].status = "starting"
    /\ \A j \in 1..Len(routers) :
          routers[j].status = "listening" => routers[j].port # routers[i].port
    /\ routers' = SetStatus(i, "listening")
    /\ UNCHANGED <<pc, args, fileContent, replicaHost, canisterIdsFile, canisterIdToPort,
                   canisterNameToPort, canisterNameToId, ri, si, exitCode, message,
                   lastReq>>

\* Line 191: listen() fails (port in use, permission denied) and the server
\* emits 'error'. No listener is attached, so the event is thrown as an
\* uncaught exception and the process ends with status 1.
ListenErrorUncaught(i) ==
    /\ pc = "running"
    /\ routers[i].status = "starting"
    /\ routers' = SetStatus(i, "failed")
    /\ Exit(1, Msg("UncaughtListenError", <<routers[i].canisterId>>, <<routers[i].port>>))
    /\ UNCHANGED <<args, fileContent, replicaHost, canisterIdsFile, canisterIdToPort,
                   canisterNameToPort, canisterNameToId, ri, si, lastReq>>

\* Line 191, with an express whose listen() hands the error to the callback:
\* the callback logs and this app never serves.
ListenErrorToCallback(i) ==
    /\ pc = "running"
    /\ routers[i].status = "starting"
    /\ routers' = SetStatus(i, "failed")
    /\ UNCHANGED <<pc, args, fileContent, replicaHost, canisterIdsFile, canisterIdToPort,
                   canisterNameToPort, canisterNameToId, ri, si, exitCode, message,
                   lastReq>>

\* Lines 171-189: a request on a listening app is proxied to the replica host
\* with its path rewritten.
Request(i, target) ==
    /\ pc = "running"
    /\ routers[i].status = "listening"
    /\ lastReq' = [router |-> i, originalUrl |-> target,
                   url |-> pathRewrite(target, routers[i].canisterId),
                   target |-> routers[i].replicaHost]
    /\ UNCHANGED <<pc, args, fileContent, replicaHost, canisterIdsFile, canisterIdToPort,
                   canisterNameToPort, canisterNameToId, ri, si, routers, exitCode,
                   message>>

Next ==
    \/ Help
    \/ GetConfig
    \/ CheckCanisters
    \/ CheckReplica
    \/ ReadCanisterIds
    \/ ResolveName
    \/ ResolveDone
    \/ StartRouter
    \/ StartDone
    \/ \E i \in 1..Len(routers) : ListenOk(i)
    \/ \E i \in 1..Len(routers) : ListenErrorUncaught(i)
    \/ \E i \in 1..Len(routers) : ListenErrorToCallback(i)
    \/ \E i \in 1..Len(routers), t \in Targets : Request(i, t)

Spec == Init /\ [][Next]_vars

SpecWords == InitWords /\ [][Next]_vars

\* ------------------------------------------------- what the claims read

HasHelp == IndexOf(args, <<"--help">>) # 0

\* The (identifier, port) pairs of a record.
Bindings(rec) == {<<rec[i].k, rec[i].v>> : i \in 1..Len(rec)}

\* The (identifier, port) pairs mkApp has been called with.
Started == {<<routers[i].canisterId, routers[i].port>> : i \in 1..Len(routers)}

ArgumentErrors == {"NoValue", "CouldNotParse", "CouldNotParsePort", "DontKnow"}

ResolutionErrors == {"CouldNotRead", "NoCanisterId", "AlreadyForwarded"}

ValidationErrors == {"NoCanisters", "NoReplica"}

StartupErrors == ArgumentErrors \cup ResolutionErrors \cup ValidationErrors

\* ------------------------------------------------------------------- C1

\* C1: a run that ends on an argument, resolution or validation error exits
\* with status 1 and has started no router; and whenever a router has been
\* started, the bindings were non-empty, the replica host was set, and every
\* --by-name binding had been resolved to an identifier that is bound.
C1_NoRouterBeforeChecks ==
    /\ (pc = "exited" /\ message.kind \in StartupErrors) =>
          (exitCode = <<1>> /\ routers = <<>>)
    /\ routers # <<>> =>
          /\ message.kind \notin StartupErrors
          /\ Len(canisterIdToPort) > 0
          /\ TruthyStr(replicaHost)
          /\ ri > Len(canisterNameToPort)
          /\ \A n \in 1..Len(canisterNameToPort) :
                LET id == Get(canisterNameToId, canisterNameToPort[n].k) IN
                TruthyStr(id) /\ Get(canisterIdToPort, id[1]) # <<>>

C1_Witness ==
    /\ pc = "exited"
    /\ message.kind = "AlreadyForwarded"
    /\ exitCode = <<1>>
    /\ routers = <<>>

\* ------------------------------------------------------------------- C3

\* C3: when the loop reaches a name whose identifier is already a key of
\* canisterIdToPort, whatever port it holds (0 included), the run exits with
\* status 1 and the message names the name, its port, the identifier and the
\* identifier's existing port, and canisterIdToPort is left as it was.
C3_ConflictAlwaysRejected ==
    [][ (/\ pc = "resolve"
         /\ ri <= Len(canisterNameToPort)
         /\ Get(canisterNameToId, canisterNameToPort[ri].k) # <<>>
         /\ Get(canisterIdToPort, Get(canisterNameToId, canisterNameToPort[ri].k)[1]) # <<>>)
        =>
        LET name == canisterNameToPort[ri].k
            port == canisterNameToPort[ri].v
            id == Get(canisterNameToId, name)[1]
        IN /\ pc' = "exited"
           /\ exitCode' = <<1>>
           /\ message' = Msg("AlreadyForwarded", <<name, id>>,
                             <<port, Get(canisterIdToPort, id)[1]>>)
           /\ canisterIdToPort' = canisterIdToPort ]_vars

\* ------------------------------------------------------------------- C4

\* C4: once routers are being started, no two bindings of canisterIdToPort
\* share a port and no two share an identifier.
C4_BindingsDistinct ==
    pc \in {"start", "running"} =>
       \A i, j \in 1..Len(canisterIdToPort) :
          i # j => /\ canisterIdToPort[i].k # canisterIdToPort[j].k
                   /\ canisterIdToPort[i].v # canisterIdToPort[j].v

\* ------------------------------------------------------------------- C5

\* The rewrite the claim describes: path and query are the two sides of the
\* first "?", and the whole query is kept.
RewriteOnFirstQuestionMark(target, id) ==
    LET i == IndexOf(target, "?")
        path == IF i = 0 THEN target ELSE SubSeq(target, 1, i - 1)
        query == IF i = 0 THEN <<>> ELSE SubSeq(target, i + 1, Len(target))
    IN path \o <<"?">> \o (IF query # <<>> THEN query \o <<"&">> ELSE <<>>)
            \o CanisterIdParam \o id

\* C5: every proxied request goes out as <path>?<original query>&canisterId=<id>
\* (or <path>?canisterId=<id> without a query), split on the first "?" only.
C5_RewriteKeepsQuery ==
    lastReq.router # 0 =>
       lastReq.url = RewriteOnFirstQuestionMark(lastReq.originalUrl,
                                                routers[lastReq.router].canisterId)

\* ------------------------------------------------------------------- C9

\* C9: with two or more routers started, a router whose listen failed does not
\* end the process.
C9_ListenFailureIsLocal ==
    (Len(routers) >= 2 /\ \E i \in 1..Len(routers) : routers[i].status = "failed")
       => pc = "running"

\* ------------------------------------------------------------------ C10

\* C10: the i-th router is made from the i-th binding of canisterIdToPort and
\* from the replica host; once main has returned there is exactly one router
\* per binding; and a request is rewritten with the identifier of the router
\* that took it and sent to the replica host.
C10_OneRouterPerBinding ==
    /\ \A i \in 1..Len(routers) :
          /\ i <= Len(canisterIdToPort)
          /\ routers[i].canisterId = canisterIdToPort[i].k
          /\ routers[i].port = canisterIdToPort[i].v
          /\ <<routers[i].replicaHost>> = replicaHost
    /\ (pc = "running" \/ (pc = "exited" /\ message.kind = "UncaughtListenError")) =>
          /\ Len(routers) = Len(canisterIdToPort)
          /\ Started = Bindings(canisterIdToPort)
    /\ lastReq.router # 0 =>
          LET r == routers[lastReq.router]
              tail == CanisterIdParam \o r.canisterId
              url == lastReq.url
          IN /\ Len(url) >= Len(tail)
             /\ SubSeq(url, Len(url) - Len(tail) + 1, Len(url)) = tail
             /\ <<lastReq.target>> = replicaHost

C10_Witness ==
    /\ pc = "running"
    /\ Len(routers) >= 2
    /\ lastReq.router = 2
    /\ routers[1].status = "listening"

\* ------------------------------------------------------------------- C7

ValueFlags == {<<"--replica-host">>, <<"--canister-ids-file">>, <<"--by-id">>, <<"--by-name">>}

AllFlags == ValueFlags \cup {<<"--help">>}

Count(s, x) == Cardinality({i \in 1..Len(s) : s[i] = x})

\* <identifier>:<port> with a port written in decimal digits.
WellFormedValue(v) ==
    /\ v \notin AllFlags
    /\ Count(v, ":") = 1
    /\ LET c == IndexOf(v, ":") IN
       /\ c < Len(v)
       /\ \A i \in (c + 1)..Len(v) : v[i] \in Digits

IdOf(v) == SubSeq(v, 1, IndexOf(v, ":") - 1)

\* The number a string of decimal digits denotes.
RECURSIVE DecimalValue(_)
DecimalValue(d) ==
    IF d = <<>> THEN 0
    ELSE 10 * DecimalValue(SubSeq(d, 1, Len(d) - 1)) + DigitVal(d[Len(d)])

PortOf(v) == DecimalValue(SubSeq(v, IndexOf(v, ":") + 1, Len(v)))

\* The argument list is a sequence of well-formed --by-id flags, beside at
\* most one --replica-host and one --canister-ids-file with their values.
OnlyWellFormedById ==
    /\ Len(args) % 2 = 0
    /\ Count(args, <<"--replica-host">>) <= 1
    /\ Count(args, <<"--canister-ids-file">>) <= 1
    /\ \A i \in 1..Len(args) :
          IF i % 2 = 1
          THEN args[i] \in ValueFlags \ {<<"--by-name">>}
          ELSE /\ args[i] \notin AllFlags
               /\ args[i - 1] = <<"--by-id">> => WellFormedValue(args[i])

\* The positions of the values of the --by-id flags.
ByIdValues == {i \in 1..Len(args) : i % 2 = 0 /\ args[i - 1] = <<"--by-id">>}

\* C7: a sequence of well-formed --by-id flags parses without error into one
\* entry per distinct identifier, each bound to the port of the last flag
\* that names it.
C7_ByIdLastWins ==
    (OnlyWellFormedById /\ pc # "main") =>
       /\ message.kind \notin ArgumentErrors
       /\ Len(canisterIdToPort) = Cardinality({IdOf(args[i]) : i \in ByIdValues})
       /\ \A i \in ByIdValues :
             Get(canisterIdToPort, IdOf(args[i])) =
                <<PortOf(args[CHOOSE j \in ByIdValues :
                                 /\ IdOf(args[j]) = IdOf(args[i])
                                 /\ \A l \in ByIdValues :
                                       IdOf(args[l]) = IdOf(args[i]) => l <= j])>>
       /\ \A n \in 1..Len(canisterIdToPort) :
             \E i \in ByIdValues : canisterIdToPort[n].k = IdOf(args[i])

C7_Witness ==
    /\ OnlyWellFormedById
    /\ pc = "checkCanisters"
    /\ Cardinality(ByIdValues) = 3
    /\ Len(canisterIdToPort) = 2
    /\ \E i, j \in ByIdValues :
          i < j /\ IdOf(args[i]) = IdOf(args[j]) /\ PortOf(args[i]) # PortOf(args[j])

\* ------------------------------------------------------------------- C8

\* The positions where a left-to-right reading of the arguments finds a flag:
\* a flag that takes a value is followed by its value, which is skipped.
RECURSIVE FlagPositions(_, _)
FlagPositions(as, i) ==
    IF i > Len(as) THEN {}
    ELSE IF as[i] \in ValueFlags THEN {i} \cup FlagPositions(as, i + 2)
         ELSE FlagPositions(as, i + 1)

\* Every flag that takes a value is followed by a word that is not a flag.
FlagsHaveValues ==
    \A i \in FlagPositions(args, 1) : i + 1 <= Len(args) /\ args[i + 1] \notin AllFlags

\* --replica-host occurs at least twice as a flag, each time followed by a
\* value of its own (a word that is not a flag).
ReplicaHostTwice ==
    Cardinality({i \in FlagPositions(args, 1) :
                    /\ args[i] = <<"--replica-host">>
                    /\ i + 1 <= Len(args)
                    /\ args[i + 1] \notin AllFlags}) >= 2

\* C8: with --replica-host given twice, parsing never succeeds: no replica
\* host is taken, no router is started, and the run (unless --help ended it
\* before parsing) exits with status 1 on an argument error.
C8_SecondReplicaHostRejected ==
    ReplicaHostTwice =>
       /\ pc \in {"main", "exited"}
       /\ replicaHost = <<>>
       /\ routers = <<>>
       /\ (pc = "exited" /\ ~HasHelp) =>
             (exitCode = <<1>> /\ message.kind \in ArgumentErrors)

\* C8 for the argument lists in which no flag stands where a value is due:
\* there the second --replica-host is always left over or taken as a
\* malformed binding.
C8_RejectedWhenFlagsHaveValues ==
    FlagsHaveValues => C8_SecondReplicaHostRejected

\* ------------------------------------------------------------------- C2

\* Lines 256-277 run to their end: the loop over canisterNameToPort from
\* index n on.
RECURSIVE resolveNames(_, _, _, _)
resolveNames(idToPort, nameToId, nameToPort, n) ==
    IF n > Len(nameToPort) THEN [err |-> NoMsg, map |-> idToPort]
    ELSE LET r == resolveName(idToPort, nameToId, nameToPort[n].k, nameToPort[n].v) IN
         IF r.err # NoMsg THEN r
         ELSE resolveNames(r.map, nameToId, nameToPort, n + 1)

Outcome(ok, bindings, started) == [ok |-> ok, bindings |-> bindings, started |-> started]

\* main() run to its end on an argument list and a canister ids file: whether
\* it got to start the routers, and then the bindings and the routers.
RunMain(as, content) ==
    IF IndexOf(as, <<"--help">>) # 0 THEN Outcome(FALSE, {}, {}) ELSE
    LET parsed == getConfig(as) IN
    IF parsed.err # NoMsg THEN Outcome(FALSE, {}, {}) ELSE
    IF Len(parsed.canisterIdToPort) = 0 THEN Outcome(FALSE, {}, {}) ELSE
    IF ~TruthyStr(parsed.replicaHost) THEN Outcome(FALSE, {}, {}) ELSE
    LET ids == readCanisterIds(parsed.canisterIdsFile, content, <<>>) IN
    IF ids.err # NoMsg THEN Outcome(FALSE, {}, {}) ELSE
    LET r == resolveNames(parsed.canisterIdToPort, ids.map, parsed.canisterNameToPort, 1) IN
    IF r.err # NoMsg THEN Outcome(FALSE, {}, {})
    ELSE Outcome(TRUE, Bindings(r.map), Bindings(r.map))

\* The run is over as far as main() goes: it exited at startup, or every
\* router has been started.
MainOver ==
    \/ pc = "running"
    \/ pc = "exited" /\ message.kind # "UncaughtListenError"

\* The outcome of this run.
ThisOutcome ==
    IF pc = "exited" THEN Outcome(FALSE, {}, {})
    ELSE Outcome(TRUE, Bindings(canisterIdToPort), Started)

\* The identifier the canister ids file gives a name: <<>> when it gives none.
LocalOf(name) ==
    IF fileContent.ok THEN Get(loadCanisterIds(fileContent.entries, <<>>), name) ELSE <<>>

\* The identifiers the --by-id flags bind.
IdsByFlag ==
    {IdOf(args[i + 1]) : i \in {j \in FlagPositions(args, 1) :
         /\ args[j] = <<"--by-id">>
         /\ j + 1 <= Len(args)
         /\ Count(args[j + 1], ":") = 1}}

\* The positions of the well-formed --by-name flags.
ByNameFlags ==
    {i \in FlagPositions(args, 1) :
        /\ args[i] = <<"--by-name">>
        /\ i + 1 <= Len(args)
        /\ WellFormedValue(args[i + 1])}

\* The positions of the --by-name flags N:P whose name the file resolves to an
\* identifier that no --by-id flag and no other --by-name flag binds.
FreshByNames ==
    {i \in ByNameFlags :
        /\ LocalOf(IdOf(args[i + 1])) # <<>>
        /\ LocalOf(IdOf(args[i + 1]))[1] \notin IdsByFlag
        /\ \A j \in ByNameFlags \ {i} :
              LocalOf(IdOf(args[j + 1])) # LocalOf(IdOf(args[i + 1]))}

\* The arguments with the --by-name N:P at position i replaced by --by-id X:P.
AsById(i) ==
    LET v == args[i + 1]
        port == SubSeq(v, IndexOf(v, ":") + 1, Len(v))
    IN [args EXCEPT ![i] = <<"--by-id">>,
                    ![i + 1] = Value(LocalOf(IdOf(v))[1], port)]

\* C2: a --by-name N:P whose name resolves to an unbound identifier X gives
\* the outcome of --by-id X:P in its place: the same success or failure, the
\* same bindings, the same routers.
C2_ByNameLikeById ==
    (MainOver /\ FlagsHaveValues) =>
       \A i \in FreshByNames : ThisOutcome = RunMain(AsById(i), fileContent)

\* ------------------------------------------------------------------- C6

\* The bindings the arguments give once the names are resolved, whatever the
\* replica host: err is set when the arguments do not parse, the file cannot
\* be read, or a name does not resolve or conflicts.
ResolvedBindings ==
    LET parsed == getConfig(args) IN
    IF parsed.err # NoMsg THEN [err |-> parsed.err, map |-> <<>>] ELSE
    LET ids == readCanisterIds(parsed.canisterIdsFile, fileContent, <<>>) IN
    IF ids.err # NoMsg THEN [err |-> ids.err, map |-> <<>>]
    ELSE resolveNames(parsed.canisterIdToPort, ids.map, parsed.canisterNameToPort, 1)

\* C6: without --replica-host and with bindings that resolve to a non-empty
\* set, the run exits with status 1 on "No replica to proxy to"; and a run
\* whose bindings resolve ends on "No canisters to proxy" exactly when the
\* resolved set is empty.
C6_ValidationAfterResolution ==
    (MainOver /\ ~HasHelp /\ FlagsHaveValues /\ ResolvedBindings.err = NoMsg) =>
       /\ (Count(args, <<"--replica-host">>) = 0 /\ Len(ResolvedBindings.map) > 0) =>
             (pc = "exited" /\ exitCode = <<1>> /\ message.kind = "NoReplica")
       /\ (pc = "exited" /\ message.kind = "NoCanisters") <=> (Len(ResolvedBindings.map) = 0)

====
